---- MODULE Spec2Model ----
(***************************************************************************)
(* State-machine model of docreader/parser/mineru_parser.py:               *)
(*   StdMinerUParser   (one blocking POST /file_parse)                     *)
(*   MinerUCloudParser (POST /submit, GET /status/{id} loop, GET /result)  *)
(* and of the image rehosting pass both share.                             *)
(*                                                                         *)
(* Text is a sequence of tokens.  The token "I" stands for the literal     *)
(* prefix "images/", "a" and "b" are path characters, "H" is a piece of    *)
(* embedded HTML, "T" is the markdown markdownify produces for it, and     *)
(* "U1", "U2", ... are the URLs handed out by the blob store.              *)
(* Time is integer wall-clock time; only requests and sleeps take time.    *)
(***************************************************************************)
EXTENDS Integers, Sequences, FiniteSets, TLC

\* ---------------------------------------------------------------- constants

\* MinerUCloudParser.POLL_INTERVAL
POLL_INTERVAL == 2

\* MinerUCloudParser.MAX_WAIT_TIME
MAX_WAIT_TIME == 600

\* ------------------------------------------------------------------- bounds

\* longest time one HTTP request (submit or status) may take
MaxReqDur == 1

\* requests of one call that take more than zero time
MaxSlow == 1

\* entries of the service's image mapping
MaxImages == 2

\* segments (references or HTML pieces) of the returned markdown
MaxSegs == 2

\* ------------------------------------------------------------ text helpers

\* Python: pat in text
Contains(text, pat) ==
    \E i \in 1..(Len(text) - Len(pat) + 1) :
        SubSeq(text, i, i + Len(pat) - 1) = pat

\* Python: text.replace(old, new), leftmost non-overlapping occurrences
RECURSIVE StrReplace(_, _, _)
StrReplace(text, old, new) ==
    IF Len(old) = 0 \/ Len(text) < Len(old) THEN text
    ELSE IF SubSeq(text, 1, Len(old)) = old
         THEN new \o StrReplace(SubSeq(text, Len(old) + 1, Len(text)), old, new)
         ELSE <<Head(text)>> \o StrReplace(Tail(text), old, new)

\* f"images/{ipath}"
Ref(ipath) == <<"I">> \o ipath

\* MarkdownImageUtil.replace_path: every occurrence of each key of the
\* replacement table (kept in insertion order) is replaced by its URL
RECURSIVE replace_path(_, _)
replace_path(content, table) ==
    IF table = <<>> THEN content
    ELSE replace_path(StrReplace(content, Head(table)[1], Head(table)[2]),
                      Tail(table))

\* markdownify.markdownify: embedded HTML becomes markdown, the rest is kept
markdownify(text) ==
    [i \in 1..Len(text) |-> IF text[i] = "H" THEN "T" ELSE text[i]]

\* base64_pattern.match(b64_str): the data URI carries the envelope
\* data:image/<ext>;base64,<payload>
EnvelopeMatches(uri) == uri.env

\* endecode.encode_image(payload, errors="ignore"): the decoded bytes, empty
\* when the payload does not decode
encode_image(b64) == IF b64 = "b64ok" THEN "bytes" ELSE ""

\* URLs of the blob store, in the order it hands them out
UrlNames == <<"U1", "U2", "U3", "U4">>

\* storage.upload_bytes: the k-th object stored gets a fresh URL; a store
\* that fails either raises or hands back the empty string
upload_bytes(outcome, k) ==
    IF outcome = "ok" THEN <<UrlNames[k]>> ELSE <<>>

\* images[image_url] = b64_str  (a dict: the key is overwritten)
DictPut(d, k, v) == {e \in d : e[1] # k} \cup {<<k, v>>}

\* Document(content=..., images=...)
Document(content, images) == [content |-> content, images |-> images]

\* Document()
EmptyDocument == Document(<<>>, {})

\* ------------------------------------------------------------------ inputs

\* internal image paths the service may use (keys of its image mapping)
Paths == {<<"a">>, <<"b">>, <<"a", "b">>}

\* values of the image mapping: a well-formed data URI, one whose payload
\* does not decode, and a string without the data:image envelope
DataUris ==
    { [env |-> TRUE,  ext |-> "png", b64 |-> "b64ok"],
      [env |-> TRUE,  ext |-> "png", b64 |-> "b64bad"],
      [env |-> FALSE, ext |-> "",    b64 |-> "b64ok"] }

ImageEntries == [path : Paths, uri : DataUris]

\* the image mapping, in dict order; its keys are distinct
ImageMaps(n) ==
    { m \in UNION {[1..k -> ImageEntries] : k \in 0..n} :
        \A i, j \in 1..Len(m) : i # j => m[i].path # m[j].path }

Segments == {Ref(p) : p \in Paths} \cup {<<"H">>}

RECURSIVE Texts(_)
Texts(n) ==
    IF n = 0 THEN {<<>>}
    ELSE Texts(n - 1) \cup {t \o s : t \in Texts(n - 1), s \in Segments}

\* what the service may return as {md_content, images}
Payloads == [md_content : Texts(MaxSegs), images : ImageMaps(MaxImages)]

\* one markdown with one referenced, well-formed image
BasicPayloads ==
    { [md_content |-> Ref(<<"a">>),
       images |-> << [path |-> <<"a">>,
                      uri |-> [env |-> TRUE, ext |-> "png", b64 |-> "b64ok"]] >>] }

\* a batch of three images, all referenced by the markdown
BatchPayloads ==
    [md_content : {Ref(<<"a">>) \o Ref(<<"b">>) \o Ref(<<"a", "b">>)},
     images : {m \in [1..3 -> ImageEntries] :
                 \A i, j \in 1..3 : i # j => m[i].path # m[j].path}]

\* the payloads of the rehosting specification
RehostPayloads == Payloads \cup BatchPayloads

\* payloads whose "images" is no dict (null, a list): written with the field
\* images_null in place of images
NullImages(P) == {[md_content |-> p.md_content, images_null |-> TRUE] : p \in P}

\* bodies of GET /result: the payload itself, the payload nested under
\* "result", a payload without "images", and payloads whose "images" is no
\* dict, bare or nested
ResultBodies(P) ==
    P \cup {[result |-> p] : p \in P} \cup {[md_content |-> p.md_content] : p \in P}
      \cup NullImages(P) \cup {[result |-> p] : p \in NullImages(P)}

\* whether the "images" of a payload, or its default {}, is a dict
HasItems(payload) == "images_null" \notin DOMAIN payload

\* dict.get(key, default)
Get(d, key, default) == IF key \in DOMAIN d THEN d[key] ELSE default

\* outcomes of storage.upload_bytes
UploadOutcomes == {"ok", "raise", "empty"}

\* request failures: connection error, non-success status, undecodable body
TransportErrors == {"conn_error", "http_error", "bad_json"}

\* values of the status / state field of a status body: "absent" is no
\* field, "falsy" a field that is present with a value Python takes as false
\* ("", null, 0, false), "other" any other value the code does not know
FieldValues ==
    {"absent", "falsy", "done", "success", "failed", "running", "other"}

\* responses to GET /status/{task_id}
StatusResponses ==
    [kind : TransportErrors] \cup [kind : {"not_object"}]
    \cup [kind : {"json"}, status : FieldValues, state : FieldValues]

\* responses to POST /submit: where the task id is, if anywhere
SubmitResponses ==
    [kind : TransportErrors] \cup [kind : {"json"}, where : {"top", "data", "none"}]

\* responses to POST /file_parse
FileParseErrors == TransportErrors \cup {"no_md_content"}

\* the task id the service hands out
TaskId == "t1"

\* a status service that reports completion at once
DoneResponses ==
    { [kind |-> "json", status |-> "done", state |-> "absent"],
      [kind |-> "json", status |-> "absent", state |-> "success"] }

\* ------------------------------------------------------------------- state

VARIABLES
    kind,               \* "std" (StdMinerUParser) or "cloud" (MinerUCloudParser)
    enable,             \* self.enable
    enable_markdownify, \* self.enable_markdownify
    nProbe,             \* GET /docs requests issued by this instance
    minerU,             \* self.minerU, the endpoint
    probed,             \* answer to the GET /docs of __init__
    storage,            \* whether self.storage is a store (truthy)
    nPing,              \* calls of the public method ping() by the caller
    pinged,             \* answer to the last such call ("none" before)
    other,              \* the call of the second thread while it is not running
    pc,                 \* position of the current call
    clock,              \* wall-clock time since the current call began
    start_time,         \* start_time of the poll loop
    nSlow,              \* requests of this call that took time
    task_id,            \* task_id of the current call ("" before submission)
    issued,             \* task id in the submission response ("" when none)
    exc,                \* exception in flight ("" when none)
    nFileParse,         \* POST /file_parse requests of this call
    nSubmit,            \* POST /submit requests of this call
    nStatus,            \* GET /status requests of this call
    nFetch,             \* GET /result requests of this call
    nSleep,             \* time.sleep(POLL_INTERVAL) calls of this call
    reqIds,             \* task ids carried by the status and result requests
    last,               \* what the last status response reported
    lastDur,            \* duration of the last status request
    runs,               \* "running" answers so far, -1 once any other answer came
    fails,              \* transient failures so far, -1 once any other answer came
    md_content,         \* md_content (after normalisation once pc = "rehost")
    images_b64,         \* images_b64
    has_items,          \* whether images_b64 is a dict (has .items())
    idx,                \* position of the rehosting loop in images_b64
    images,             \* images: set of <<url, payload>>
    image_replace,      \* image_replace: sequence of <<reference, url>>
    decoded,            \* paths whose payload was handed to encode_image
    uploads,            \* upload_bytes calls: [path, outcome, url]
    result              \* what the call gave its caller

cfgVars == <<kind, enable, enable_markdownify, nProbe, minerU, probed, storage,
             nPing, pinged, other>>
netVars == <<nFileParse, nSubmit, nStatus, nFetch, nSleep, reqIds>>
pollVars == <<clock, start_time, nSlow, task_id, issued, last, lastDur, runs,
              fails>>
imgVars == <<md_content, images_b64, has_items, idx, images, image_replace,
             decoded, uploads>>
vars == <<cfgVars, pc, exc, netVars, pollVars, imgVars, result>>

\* result while a call is running or after it raised: nothing was returned
NoResult == [content |-> <<"?">>, images |-> {}]

\* the call of the running thread: its position and its locals
CallState ==
    [pc |-> pc, exc |-> exc, result |-> result,
     nFileParse |-> nFileParse, nSubmit |-> nSubmit, nStatus |-> nStatus,
     nFetch |-> nFetch, nSleep |-> nSleep, reqIds |-> reqIds,
     clock |-> clock, start_time |-> start_time, nSlow |-> nSlow,
     task_id |-> task_id, issued |-> issued, last |-> last,
     lastDur |-> lastDur, runs |-> runs, fails |-> fails,
     md_content |-> md_content, images_b64 |-> images_b64,
     has_items |-> has_items, idx |-> idx,
     images |-> images, image_replace |-> image_replace,
     decoded |-> decoded, uploads |-> uploads]

\* a thread that has not called parse_into_text yet
IdleCall ==
    [pc |-> "idle", exc |-> "", result |-> NoResult,
     nFileParse |-> 0, nSubmit |-> 0, nStatus |-> 0,
     nFetch |-> 0, nSleep |-> 0, reqIds |-> {},
     clock |-> 0, start_time |-> 0, nSlow |-> 0,
     task_id |-> "", issued |-> "", last |-> "none",
     lastDur |-> 0, runs |-> 0, fails |-> 0,
     md_content |-> <<>>, images_b64 |-> <<>>, has_items |-> TRUE, idx |-> 1,
     images |-> {}, image_replace |-> <<>>,
     decoded |-> {}, uploads |-> <<>>]

\* the locals of a call before its first statement
FreshCall ==
    /\ clock' = 0 /\ start_time' = 0 /\ nSlow' = 0 /\ task_id' = ""
    /\ issued' = ""
    /\ exc' = ""
    /\ nFileParse' = 0 /\ nSubmit' = 0 /\ nStatus' = 0 /\ nFetch' = 0
    /\ nSleep' = 0 /\ reqIds' = {}
    /\ last' = "none" /\ lastDur' = 0 /\ runs' = 0 /\ fails' = 0
    /\ md_content' = <<>> /\ images_b64' = <<>> /\ has_items' = TRUE
    /\ idx' = 1
    /\ images' = {} /\ image_replace' = <<>>
    /\ decoded' = {} /\ uploads' = <<>>

\* before __init__ of an instance whose store is one of stores
InitWith(stores) ==
    /\ kind \in {"std", "cloud"}
    /\ enable_markdownify \in BOOLEAN
    /\ storage \in stores
    /\ enable = FALSE /\ nProbe = 0
    /\ minerU = <<>> /\ probed = "none"
    /\ nPing = 0 /\ pinged = "none" /\ other = IdleCall
    /\ pc = "new"
    /\ clock = 0 /\ start_time = 0 /\ nSlow = 0 /\ task_id = ""
    /\ issued = ""
    /\ exc = ""
    /\ nFileParse = 0 /\ nSubmit = 0 /\ nStatus = 0 /\ nFetch = 0
    /\ nSleep = 0 /\ reqIds = {}
    /\ last = "none" /\ lastDur = 0 /\ runs = 0 /\ fails = 0
    /\ md_content = <<>> /\ images_b64 = <<>> /\ has_items = TRUE /\ idx = 1
    /\ images = {} /\ image_replace = <<>>
    /\ decoded = {} /\ uploads = <<>>
    /\ result = NoResult

\* an instance with a blob store
Init == InitWith({TRUE})

\* an instance with or without a blob store
InitRehost == InitWith(BOOLEAN)

\* --------------------------------------------------- StdMinerUParser.__init__

\* ping(): True when GET /docs answers with a success status, False on any
\* exception
ping(probe) == probe = "ok"

\* base_url.rstrip("/") if base_url else ""
RECURSIVE rstrip(_)
rstrip(url) ==
    IF url = <<>> THEN <<>>
    ELSE IF url[Len(url)] = "/" THEN rstrip(SubSeq(url, 1, Len(url) - 1))
    ELSE url

\* endpoints the instance may be configured with: none, a base URL, a base
\* URL with a trailing slash
Endpoints == {<<>>, <<"E">>, <<"E", "/">>}

\* answers to GET /docs; "bad_url" is the exception requests raises for the
\* URL "/docs" of an instance without endpoint
ProbeOutcomes == {"ok", "http_error", "conn_error", "bad_url"}

\* __init__: the endpoint is stored, the probe is made once and its answer
\* kept in self.enable
Construct(ep, probe) ==
    /\ pc = "new"
    /\ minerU' = rstrip(ep)
    /\ (probe = "bad_url") <=> (rstrip(ep) = <<>>)
    /\ nProbe' = nProbe + 1
    /\ probed' = probe
    /\ enable' = ping(probe)
    /\ pc' = "idle"
    /\ UNCHANGED <<kind, enable_markdownify, storage, nPing, pinged, other,
                   exc, netVars, pollVars, imgVars, result>>

\* number of calls of ping() by the caller that are followed
MaxPings == 2

\* the public method ping() called on a constructed instance: another
\* GET /docs, whose answer is returned and not stored
Ping(probe) ==
    /\ pc # "new"
    /\ nPing < MaxPings
    /\ (probe = "bad_url") <=> (minerU = <<>>)
    /\ nProbe' = nProbe + 1
    /\ nPing' = nPing + 1
    /\ pinged' = probe
    /\ UNCHANGED <<kind, enable, enable_markdownify, minerU, probed, storage,
                   other, pc, exc, netVars, pollVars, imgVars, result>>

\* the scheduler runs the other thread: two threads call parse_into_text on
\* the same instance, each with its own locals
Switch ==
    /\ pc # "new"
    /\ other' = CallState
    /\ pc' = other.pc /\ exc' = other.exc /\ result' = other.result
    /\ nFileParse' = other.nFileParse /\ nSubmit' = other.nSubmit
    /\ nStatus' = other.nStatus /\ nFetch' = other.nFetch
    /\ nSleep' = other.nSleep /\ reqIds' = other.reqIds
    /\ clock' = other.clock /\ start_time' = other.start_time
    /\ nSlow' = other.nSlow /\ task_id' = other.task_id
    /\ issued' = other.issued /\ last' = other.last
    /\ lastDur' = other.lastDur /\ runs' = other.runs /\ fails' = other.fails
    /\ md_content' = other.md_content /\ images_b64' = other.images_b64
    /\ has_items' = other.has_items
    /\ idx' = other.idx /\ images' = other.images
    /\ image_replace' = other.image_replace
    /\ decoded' = other.decoded /\ uploads' = other.uploads
    /\ UNCHANGED <<kind, enable, enable_markdownify, nProbe, minerU, probed,
                   storage, nPing, pinged>>

\* the running thread begins a call when the instance is constructed and the
\* thread is not inside a call of its own (the call of the other thread, at
\* whatever position, is held in other)
CanCall == pc \in {"idle", "returned", "raised"}

\* ------------------------------------------ MinerUCloudParser.parse_into_text

\* CloudCall without the check of self.enable
CloudCallUngated ==
    /\ kind = "cloud"
    /\ CanCall
    /\ FreshCall
    /\ pc' = "submit" /\ result' = NoResult
    /\ UNCHANGED cfgVars

\* entry: a disabled parser returns Document() before any request
CloudCall ==
    /\ kind = "cloud"
    /\ CanCall
    /\ FreshCall
    /\ IF ~enable
       THEN pc' = "returned" /\ result' = EmptyDocument
       ELSE pc' = "submit" /\ result' = NoResult
    /\ UNCHANGED cfgVars

\* ExtractTaskId that reads the top-level task_id only
ExtractTaskIdTopOnly(resp) ==
    IF resp.where = "top" THEN TaskId ELSE ""

\* resp_data.get("task_id") or resp_data.get("data", {}).get("task_id")
ExtractTaskId(resp) == IF resp.where \in {"top", "data"} THEN TaskId ELSE ""

\* Step 1: POST /submit, raise_for_status, json, task id extraction;
\* start_time is taken once the task id is known
CloudSubmit(resp, d) ==
    /\ pc = "submit"
    /\ d > 0 => nSlow < MaxSlow
    /\ nSubmit' = nSubmit + 1
    /\ clock' = clock + d
    /\ nSlow' = IF d > 0 THEN nSlow + 1 ELSE nSlow
    /\ issued' = IF resp.kind = "json" /\ resp.where # "none" THEN TaskId ELSE ""
    /\ IF resp.kind # "json"
       THEN /\ exc' = "RequestError" /\ pc' = "except"
            /\ UNCHANGED <<task_id, start_time>>
       ELSE IF ExtractTaskId(resp) = ""
       THEN /\ exc' = "ValueError" /\ pc' = "except"
            /\ UNCHANGED <<task_id, start_time>>
       ELSE /\ task_id' = ExtractTaskId(resp)
            /\ start_time' = clock'
            /\ pc' = "poll"
            /\ UNCHANGED exc
    /\ UNCHANGED <<cfgVars, nFileParse, nStatus, nFetch, nSleep, reqIds,
                   last, lastDur, runs, fails, imgVars, result>>

\* time.time() - start_time > self.MAX_WAIT_TIME
DeadlinePassed == clock - start_time > MAX_WAIT_TIME

\* CloudPollTimeout that leaves the loop with break instead of raising
CloudPollTimeoutBreak ==
    /\ pc = "poll"
    /\ DeadlinePassed
    /\ pc' = "fetch"
    /\ UNCHANGED <<cfgVars, exc, netVars, pollVars, imgVars, result>>

\* CloudPollTimeout with the deadline examined before the fetch as well
CloudPollTimeoutBeforeFetch ==
    /\ pc \in {"poll", "fetch"}
    /\ DeadlinePassed
    /\ exc' = "TimeoutError"
    /\ pc' = "except"
    /\ UNCHANGED <<cfgVars, netVars, pollVars, imgVars, result>>

\* top of the poll loop, deadline passed: raise TimeoutError
CloudPollTimeout ==
    /\ pc = "poll"
    /\ DeadlinePassed
    /\ exc' = "TimeoutError"
    /\ pc' = "except"
    /\ UNCHANGED <<cfgVars, netVars, pollVars, imgVars, result>>

\* a or b on two optional values: b when a is missing (None) or falsy
OrElse(a, b) == IF a \notin {"absent", "falsy"} THEN a ELSE b

\* status_data.get("status") or status_data.get("state")
StateOf(resp) == OrElse(resp.status, resp.state)

\* Classify with "done" no longer a completion marker: only "success" breaks
ClassifySuccessOnly(resp) ==
    IF resp.kind \in TransportErrors THEN "transient"
    ELSE IF resp.kind = "not_object" THEN "bad"
    ELSE IF OrElse(resp.status, resp.state) = "success" THEN "done"
    ELSE IF OrElse(resp.status, resp.state) = "failed" THEN "failed"
    ELSE "running"

\* Classify that accepts only "running" as the state of a running task
ClassifyKnownOnly(resp) ==
    IF resp.kind \in TransportErrors THEN "transient"
    ELSE IF resp.kind = "not_object" THEN "bad"
    ELSE IF OrElse(resp.status, resp.state) \in {"done", "success"} THEN "done"
    ELSE IF OrElse(resp.status, resp.state) = "failed" THEN "failed"
    ELSE IF OrElse(resp.status, resp.state) = "running" THEN "running"
    ELSE "bad"

\* what the loop makes of a status response:
\*   "transient"  requests.RequestException: sleep and retry
\*   "bad"        any other exception (the body is no JSON object)
\*   "done"       state in ["done", "success"]: break
\*   "failed"     state == "failed": raise RuntimeError
\*   "running"    anything else: sleep and poll again
Classify(resp) ==
    IF resp.kind \in TransportErrors THEN "transient"
    ELSE IF resp.kind = "not_object" THEN "bad"
    ELSE IF StateOf(resp) \in {"done", "success"} THEN "done"
    ELSE IF StateOf(resp) = "failed" THEN "failed"
    ELSE "running"

\* AfterStatus with a fetch attempted while the task is still running
AfterStatusEagerFetch(c) ==
    CASE c = "transient" -> "sleep"
      [] c = "running"   -> "fetch"
      [] c = "done"      -> "fetch"
      [] OTHER           -> "except"

\* AfterStatus with the request exception not caught inside the loop
AfterStatusNoRetry(c) ==
    CASE c = "running"   -> "sleep"
      [] c = "done"      -> "fetch"
      [] OTHER           -> "except"

\* AfterStatus with a reported failure treated like a running task
AfterStatusFailedPolled(c) ==
    CASE c = "transient" -> "sleep"
      [] c = "running"   -> "sleep"
      [] c = "failed"    -> "sleep"
      [] c = "done"      -> "fetch"
      [] OTHER           -> "except"

\* AfterStatus with the request repeated at once after a request exception
AfterStatusBusyRetry(c) ==
    CASE c = "transient" -> "poll"
      [] c = "running"   -> "sleep"
      [] c = "done"      -> "fetch"
      [] OTHER           -> "except"

\* position after a status response of class c
AfterStatus(c) ==
    CASE c = "transient" -> "sleep"
      [] c = "running"   -> "sleep"
      [] c = "done"      -> "fetch"
      [] OTHER           -> "except"

\* exception raised by a status response of class c ("" when none)
StatusException(c) ==
    CASE c = "failed" -> "RuntimeError"
      [] c = "bad"    -> "AttributeError"
      [] OTHER        -> ""

\* what the service reported in a status response, read off the response
\* itself: the value of its status field, or of its state field when it has
\* no status field or an empty one
Reported(resp) ==
    IF resp.kind \in TransportErrors THEN "transient"
    ELSE IF resp.kind = "not_object" THEN "malformed"
    ELSE LET v == IF resp.status \in {"absent", "falsy"}
                  THEN resp.state ELSE resp.status
         IN  IF v \in {"done", "success"} THEN "done"
             ELSE IF v \in {"failed", "running"} THEN v
             ELSE "unknown"

\* one iteration of the poll loop whose deadline check passed:
\* GET /status/{task_id}, then break, raise or go to sleep
CloudPollStatus(resp, d) ==
    /\ pc = "poll"
    /\ ~DeadlinePassed
    /\ d > 0 => nSlow < MaxSlow
    /\ nStatus' = nStatus + 1
    /\ reqIds' = reqIds \cup {task_id}
    /\ clock' = clock + d
    /\ lastDur' = d
    /\ nSlow' = IF d > 0 THEN nSlow + 1 ELSE nSlow
    /\ last' = Reported(resp)
    /\ runs' = IF last' = "done" THEN runs
               ELSE IF runs >= 0 /\ last' = "running" THEN runs + 1 ELSE -1
    /\ fails' = IF last' = "done" THEN fails
                ELSE IF fails >= 0 /\ last' = "transient" THEN fails + 1 ELSE -1
    /\ pc' = AfterStatus(Classify(resp))
    /\ exc' = StatusException(Classify(resp))
    /\ UNCHANGED <<cfgVars, nFileParse, nSubmit, nFetch, nSleep,
                   start_time, task_id, issued, imgVars, result>>

\* CloudSleep that sleeps twice the interval
CloudSleepTwice ==
    /\ pc = "sleep"
    /\ nSleep' = nSleep + 1
    /\ clock' = clock + 2 * POLL_INTERVAL
    /\ pc' = "poll"
    /\ UNCHANGED <<cfgVars, exc, nFileParse, nSubmit, nStatus, nFetch,
                   reqIds, start_time, nSlow, task_id, issued, last, lastDur,
                   runs, fails, imgVars, result>>

\* CloudSleep that sleeps one second less than the interval
CloudSleepShort ==
    /\ pc = "sleep"
    /\ nSleep' = nSleep + 1
    /\ clock' = clock + POLL_INTERVAL - 1
    /\ pc' = "poll"
    /\ UNCHANGED <<cfgVars, exc, nFileParse, nSubmit, nStatus, nFetch,
                   reqIds, start_time, nSlow, task_id, issued, last, lastDur,
                   runs, fails, imgVars, result>>

\* time.sleep(self.POLL_INTERVAL), then the top of the loop
CloudSleep ==
    /\ pc = "sleep"
    /\ nSleep' = nSleep + 1
    /\ clock' = clock + POLL_INTERVAL
    /\ pc' = "poll"
    /\ UNCHANGED <<cfgVars, exc, nFileParse, nSubmit, nStatus, nFetch,
                   reqIds, start_time, nSlow, task_id, issued, last, lastDur,
                   runs, fails, imgVars, result>>

\* result_json.get("result", result_json)
NormalizeResult(body) == Get(body, "result", body)

\* the exception a failing GET /result raises: an exception of requests, or
\* the AttributeError of .get on a body (or a "result") that is no object
FetchException(k) ==
    IF k \in TransportErrors THEN "RequestError" ELSE "AttributeError"

\* Step 3: GET /result/{task_id}, raise_for_status, json, normalisation of
\* the envelope, md_content and images with their defaults
CloudFetch(resp) ==
    /\ pc = "fetch"
    /\ nFetch' = nFetch + 1
    /\ reqIds' = reqIds \cup {task_id}
    /\ IF resp.kind # "json"
       THEN /\ exc' = FetchException(resp.kind) /\ pc' = "except"
            /\ UNCHANGED <<md_content, images_b64, has_items>>
       ELSE /\ md_content' = Get(NormalizeResult(resp.body), "md_content", <<>>)
            /\ images_b64' = Get(NormalizeResult(resp.body), "images", <<>>)
            /\ has_items' = HasItems(NormalizeResult(resp.body))
            /\ pc' = "normalize"
            /\ UNCHANGED exc
    /\ UNCHANGED <<cfgVars, nFileParse, nSubmit, nStatus, nSleep,
                   pollVars, idx, images, image_replace, decoded, uploads,
                   result>>

\* responses to GET /result/{task_id} for the payloads P
FetchResponses(P) ==
    [kind : TransportErrors \cup {"not_object", "null_result"}]
    \cup {[kind |-> "json", body |-> b] : b \in ResultBodies(P)}

\* if self.enable_markdownify: md_content = markdownify.markdownify(md_content)
\* (the library may raise; inside the outer try)
CloudMarkdownify(raises) ==
    /\ pc = "normalize"
    /\ kind = "cloud"
    /\ raises => enable_markdownify
    /\ IF raises
       THEN exc' = "MarkdownifyError" /\ pc' = "except" /\ UNCHANGED md_content
       ELSE /\ md_content' = IF enable_markdownify THEN markdownify(md_content)
                             ELSE md_content
            /\ pc' = "rehost"
            /\ UNCHANGED exc
    /\ UNCHANGED <<cfgVars, netVars, pollVars, images_b64, has_items, idx,
                   images, image_replace, decoded, uploads, result>>

\* number of URLs the store has handed out in this call
Stored(ups) == Cardinality({i \in 1..Len(ups) : ups[i].outcome = "ok"})

\* image_replace[key] = url  (a dict: insertion order, the key is overwritten)
TablePut(table, key, url) ==
    IF \E i \in 1..Len(table) : table[i][1] = key
    THEN [i \in 1..Len(table) |->
            IF table[i][1] = key THEN <<key, url>> ELSE table[i]]
    ELSE Append(table, <<key, url>>)

\* ReachesUpload without the check that the reference is in the markdown
ReachesUploadUnfiltered(md, e) ==
    /\ EnvelopeMatches(e.uri)
    /\ encode_image(e.uri.b64) # ""

\* whether the loop body reaches upload_bytes for entry e: the reference is
\* in the markdown, the envelope matches and the payload decodes
ReachesUpload(md, e) ==
    /\ Contains(md, Ref(e.path))
    /\ EnvelopeMatches(e.uri)
    /\ encode_image(e.uri.b64) # ""

\* whether the loop body hands the payload of entry e to encode_image
ReachesDecode(md, e) ==
    /\ Contains(md, Ref(e.path))
    /\ EnvelopeMatches(e.uri)

\* the loop over images_b64.items(), inside the outer try: its header raises
\* AttributeError when images_b64 is no dict; otherwise one iteration, where
\* without a store (if self.storage:) a decoded image is left alone; an
\* exception of upload_bytes goes to the handler
CloudRehostStep(outcome) ==
    /\ pc = "rehost"
    /\ kind = "cloud"
    /\ IF ~has_items
       THEN /\ outcome = "ok"
            /\ exc' = "AttributeError" /\ pc' = "except"
            /\ UNCHANGED <<idx, uploads, images, image_replace, decoded>>
       ELSE /\ idx <= Len(images_b64)
            /\ LET e == images_b64[idx]
                   url == upload_bytes(outcome, Stored(uploads) + 1)
               IN  /\ decoded' = IF ReachesDecode(md_content, e)
                                  THEN decoded \cup {e.path} ELSE decoded
                   /\ IF ~ReachesUpload(md_content, e) \/ ~storage
                      THEN /\ outcome = "ok"
                           /\ idx' = idx + 1
                           /\ UNCHANGED <<uploads, images, image_replace, exc, pc>>
                      ELSE /\ uploads' = Append(uploads,
                                [path |-> e.path, outcome |-> outcome, url |-> url])
                           /\ IF outcome = "raise"
                              THEN /\ exc' = "UploadError" /\ pc' = "except"
                                   /\ UNCHANGED <<idx, images, image_replace>>
                              ELSE /\ images' = DictPut(images, url, e.uri.b64)
                                   /\ image_replace' =
                                          TablePut(image_replace, Ref(e.path), url)
                                   /\ idx' = idx + 1
                                   /\ UNCHANGED <<exc, pc>>
    /\ UNCHANGED <<cfgVars, netVars, pollVars, md_content, images_b64,
                   has_items, result>>

\* after the loop: if image_replace: replace_path(...); return Document(...)
CloudReturn ==
    /\ pc = "rehost"
    /\ kind = "cloud"
    /\ has_items
    /\ idx > Len(images_b64)
    /\ result' = Document(IF image_replace # <<>>
                          THEN replace_path(md_content, image_replace)
                          ELSE md_content,
                          images)
    /\ pc' = "returned"
    /\ UNCHANGED <<cfgVars, exc, netVars, pollVars, imgVars>>

\* CloudExcept that catches request errors only: the rest leaves the call
CloudExceptNarrow ==
    /\ pc = "except"
    /\ kind = "cloud"
    /\ IF exc = "RequestError"
       THEN result' = EmptyDocument /\ pc' = "returned"
       ELSE result' = result /\ pc' = "raised"
    /\ UNCHANGED <<cfgVars, exc, netVars, pollVars, imgVars>>

\* CloudExcept that sends the result request once more after it failed
CloudExceptRefetch ==
    /\ pc = "except"
    /\ kind = "cloud"
    /\ IF exc = "RequestError" /\ nFetch = 1
       THEN result' = result /\ pc' = "fetch"
       ELSE result' = EmptyDocument /\ pc' = "returned"
    /\ UNCHANGED <<cfgVars, exc, netVars, pollVars, imgVars>>

\* CloudExcept that submits the file again after a timeout
CloudExceptResubmit ==
    /\ pc = "except"
    /\ kind = "cloud"
    /\ IF exc = "TimeoutError" /\ nSubmit = 1
       THEN result' = result /\ pc' = "submit"
       ELSE result' = EmptyDocument /\ pc' = "returned"
    /\ UNCHANGED <<cfgVars, exc, netVars, pollVars, imgVars>>

\* except Exception: log and return Document()
CloudExcept ==
    /\ pc = "except"
    /\ kind = "cloud"
    /\ result' = EmptyDocument
    /\ pc' = "returned"
    /\ UNCHANGED <<cfgVars, exc, netVars, pollVars, imgVars>>

\* -------------------------------------------- StdMinerUParser.parse_into_text

\* StdCall that probes the service again before a call
StdCallReprobe ==
    /\ kind = "std"
    /\ CanCall
    /\ FreshCall
    /\ IF ~enable
       THEN pc' = "returned" /\ result' = EmptyDocument
       ELSE pc' = "file_parse" /\ result' = NoResult
    /\ nProbe' = IF nProbe < 2 THEN nProbe + 1 ELSE nProbe
    /\ UNCHANGED <<kind, enable, enable_markdownify, minerU, probed, storage,
                   nPing, pinged, other>>

\* entry: a disabled parser returns Document() before any request
StdCall ==
    /\ kind = "std"
    /\ CanCall
    /\ FreshCall
    /\ IF ~enable
       THEN pc' = "returned" /\ result' = EmptyDocument
       ELSE pc' = "file_parse" /\ result' = NoResult
    /\ UNCHANGED cfgVars

\* responses to POST /file_parse for the payloads P: the body carries
\* results.files.md_content and maybe results.files.images, which may be
\* no dict
FileParseResponses(P) ==
    [kind : FileParseErrors]
    \cup {[kind |-> "json", body |-> b] :
            b \in P \cup {[md_content |-> p.md_content] : p \in P}
                   \cup NullImages(P)}

\* the exception a failing POST /file_parse raises inside the try block:
\* requests.post, raise_for_status, response.json(), result["md_content"]
FileParseException(k) ==
    CASE k = "conn_error" -> "ConnectionError"
      [] k = "http_error" -> "HTTPError"
      [] k = "bad_json" -> "JSONDecodeError"
      [] k = "no_md_content" -> "KeyError"

\* the try block: POST /file_parse, raise_for_status,
\* json()["results"]["files"], md_content, images
StdFileParse(resp) ==
    /\ pc = "file_parse"
    /\ nFileParse' = nFileParse + 1
    /\ IF resp.kind # "json"
       THEN /\ exc' = FileParseException(resp.kind) /\ pc' = "except"
            /\ UNCHANGED <<md_content, images_b64, has_items>>
       ELSE /\ md_content' = resp.body.md_content
            /\ images_b64' = Get(resp.body, "images", <<>>)
            /\ has_items' = HasItems(resp.body)
            /\ pc' = "normalize"
            /\ UNCHANGED exc
    /\ UNCHANGED <<cfgVars, nSubmit, nStatus, nFetch, nSleep, reqIds,
                   pollVars, idx, images, image_replace, decoded, uploads,
                   result>>

\* StdExcept that catches the exceptions of requests only: a KeyError of the
\* body leaves the call
StdExceptNarrow ==
    /\ pc = "except"
    /\ kind = "std"
    /\ IF exc = "KeyError"
       THEN result' = result /\ pc' = "raised"
       ELSE result' = EmptyDocument /\ pc' = "returned"
    /\ UNCHANGED <<cfgVars, exc, netVars, pollVars, imgVars>>

\* StdExcept that sends the request once more after a connection error
StdExceptRetry ==
    /\ pc = "except"
    /\ kind = "std"
    /\ IF exc = "ConnectionError" /\ nFileParse < 2
       THEN result' = result /\ pc' = "file_parse"
       ELSE result' = EmptyDocument /\ pc' = "returned"
    /\ UNCHANGED <<cfgVars, exc, netVars, pollVars, imgVars>>

\* except Exception around the request: log and return Document()
StdExcept ==
    /\ pc = "except"
    /\ kind = "std"
    /\ result' = EmptyDocument
    /\ pc' = "returned"
    /\ UNCHANGED <<cfgVars, exc, netVars, pollVars, imgVars>>

\* if self.enable_markdownify: md_content = markdownify.markdownify(md_content)
\* (outside the try block: an exception leaves parse_into_text)
StdMarkdownify(raises) ==
    /\ pc = "normalize"
    /\ kind = "std"
    /\ raises => enable_markdownify
    /\ IF raises
       THEN exc' = "MarkdownifyError" /\ pc' = "raised" /\ UNCHANGED md_content
       ELSE /\ md_content' = IF enable_markdownify THEN markdownify(md_content)
                             ELSE md_content
            /\ pc' = "rehost"
            /\ UNCHANGED exc
    /\ UNCHANGED <<cfgVars, netVars, pollVars, images_b64, has_items, idx,
                   images, image_replace, decoded, uploads, result>>

\* StdRehostStep that uploads an image again when the store handed back no
\* URL
StdRehostStepRetry(outcome) ==
    /\ pc = "rehost"
    /\ kind = "std"
    /\ IF ~has_items
       THEN /\ outcome = "ok"
            /\ exc' = "AttributeError" /\ pc' = "raised"
            /\ UNCHANGED <<idx, uploads, images, image_replace, decoded>>
       ELSE /\ idx <= Len(images_b64)
            /\ LET e == images_b64[idx]
                   url == upload_bytes(outcome, Stored(uploads) + 1)
               IN  /\ decoded' = IF ReachesDecode(md_content, e)
                                  THEN decoded \cup {e.path} ELSE decoded
                   /\ IF ~ReachesUpload(md_content, e)
                      THEN /\ outcome = "ok"
                           /\ idx' = idx + 1
                           /\ UNCHANGED <<uploads, images, image_replace, exc, pc>>
                      ELSE IF ~storage
                      THEN /\ outcome = "ok"
                           /\ exc' = "AttributeError" /\ pc' = "raised"
                           /\ UNCHANGED <<idx, uploads, images, image_replace>>
                      ELSE /\ uploads' = Append(uploads,
                                [path |-> e.path, outcome |-> outcome, url |-> url])
                           /\ IF outcome = "raise"
                              THEN /\ exc' = "UploadError" /\ pc' = "raised"
                                   /\ UNCHANGED <<idx, images, image_replace>>
                              ELSE /\ images' = DictPut(images, url, e.uri.b64)
                                   /\ image_replace' =
                                          TablePut(image_replace, Ref(e.path), url)
                                   /\ idx' = IF outcome = "empty" /\ Len(uploads) < 2
                                             THEN idx ELSE idx + 1
                                   /\ UNCHANGED <<exc, pc>>
    /\ UNCHANGED <<cfgVars, netVars, pollVars, md_content, images_b64,
                   has_items, result>>

\* the loop over images_b64.items(), outside any try: its header raises
\* AttributeError when images_b64 is no dict; otherwise one iteration, where an
\* exception of upload_bytes leaves parse_into_text, and so does the
\* AttributeError of self.storage.upload_bytes on an instance without store
StdRehostStep(outcome) ==
    /\ pc = "rehost"
    /\ kind = "std"
    /\ IF ~has_items
       THEN /\ outcome = "ok"
            /\ exc' = "AttributeError" /\ pc' = "raised"
            /\ UNCHANGED <<idx, uploads, images, image_replace, decoded>>
       ELSE /\ idx <= Len(images_b64)
            /\ LET e == images_b64[idx]
                   url == upload_bytes(outcome, Stored(uploads) + 1)
               IN  /\ decoded' = IF ReachesDecode(md_content, e)
                                  THEN decoded \cup {e.path} ELSE decoded
                   /\ IF ~ReachesUpload(md_content, e)
                      THEN /\ outcome = "ok"
                           /\ idx' = idx + 1
                           /\ UNCHANGED <<uploads, images, image_replace, exc, pc>>
                      ELSE IF ~storage
                      THEN /\ outcome = "ok"
                           /\ exc' = "AttributeError" /\ pc' = "raised"
                           /\ UNCHANGED <<idx, uploads, images, image_replace>>
                      ELSE /\ uploads' = Append(uploads,
                                [path |-> e.path, outcome |-> outcome, url |-> url])
                           /\ IF outcome = "raise"
                              THEN /\ exc' = "UploadError" /\ pc' = "raised"
                                   /\ UNCHANGED <<idx, images, image_replace>>
                              ELSE /\ images' = DictPut(images, url, e.uri.b64)
                                   /\ image_replace' =
                                          TablePut(image_replace, Ref(e.path), url)
                                   /\ idx' = idx + 1
                                   /\ UNCHANGED <<exc, pc>>
    /\ UNCHANGED <<cfgVars, netVars, pollVars, md_content, images_b64,
                   has_items, result>>

\* after the loop: text = replace_path(md_content, image_replace);
\* return Document(content=text, images=images)
StdReturn ==
    /\ pc = "rehost"
    /\ kind = "std"
    /\ has_items
    /\ idx > Len(images_b64)
    /\ result' = Document(replace_path(md_content, image_replace), images)
    /\ pc' = "returned"
    /\ UNCHANGED <<cfgVars, exc, netVars, pollVars, imgVars>>

\* ----------------------------------------------------------- specifications

\* durations of one request
Durations == 0..MaxReqDur

\* the parser against a service that answers freely; the result payload is
\* the basic one
Next ==
    \/ pc = "new" /\ \E ep \in Endpoints, probe \in ProbeOutcomes : Construct(ep, probe)
    \/ CloudCall
    \/ pc = "submit" /\ \E resp \in SubmitResponses, d \in Durations : CloudSubmit(resp, d)
    \/ CloudPollTimeout
    \/ pc = "poll" /\ \E resp \in StatusResponses, d \in Durations : CloudPollStatus(resp, d)
    \/ CloudSleep
    \/ pc = "fetch" /\ \E resp \in FetchResponses(BasicPayloads) : CloudFetch(resp)
    \/ pc = "normalize" /\ \E raises \in BOOLEAN : CloudMarkdownify(raises)
    \/ pc = "rehost" /\ \E outcome \in UploadOutcomes : CloudRehostStep(outcome)
    \/ CloudReturn
    \/ CloudExcept
    \/ StdCall
    \/ pc = "file_parse" /\ \E resp \in FileParseResponses(BasicPayloads) : StdFileParse(resp)
    \/ StdExcept
    \/ pc = "normalize" /\ \E raises \in BOOLEAN : StdMarkdownify(raises)
    \/ pc = "rehost" /\ \E outcome \in UploadOutcomes : StdRehostStep(outcome)
    \/ StdReturn

Spec == Init /\ [][Next]_vars

\* every request and every sleep returns, every step of a call is taken
FairSpec == Spec /\ WF_vars(Next)

\* the parser against a service that accepts the task and reports completion
\* at the first poll; the result payload ranges over RehostPayloads
NextRehost ==
    \/ pc = "new" /\ \E ep \in Endpoints, probe \in ProbeOutcomes : Construct(ep, probe)
    \/ CloudCall
    \/ pc = "submit" /\ \E resp \in SubmitResponses : CloudSubmit(resp, 0)
    \/ pc = "poll" /\ \E resp \in DoneResponses : CloudPollStatus(resp, 0)
    \/ pc = "fetch" /\ \E resp \in FetchResponses(RehostPayloads) : CloudFetch(resp)
    \/ pc = "normalize" /\ \E raises \in BOOLEAN : CloudMarkdownify(raises)
    \/ pc = "rehost" /\ \E outcome \in UploadOutcomes : CloudRehostStep(outcome)
    \/ CloudReturn
    \/ CloudExcept
    \/ StdCall
    \/ pc = "file_parse" /\ \E resp \in FileParseResponses(RehostPayloads) : StdFileParse(resp)
    \/ StdExcept
    \/ pc = "normalize" /\ \E raises \in BOOLEAN : StdMarkdownify(raises)
    \/ pc = "rehost" /\ \E outcome \in UploadOutcomes : StdRehostStep(outcome)
    \/ StdReturn

SpecRehost == InitRehost /\ [][NextRehost]_vars

\* one instance used by two threads, each calling parse_into_text, and pinged
\* by its caller, against a service that reports completion at the first poll
NextInstance ==
    \/ pc = "new" /\ \E ep \in Endpoints, probe \in ProbeOutcomes : Construct(ep, probe)
    \/ pc # "new" /\ \E probe \in ProbeOutcomes : Ping(probe)
    \/ Switch
    \/ CloudCall
    \/ pc = "submit" /\ \E resp \in SubmitResponses : CloudSubmit(resp, 0)
    \/ pc = "poll" /\ \E resp \in DoneResponses : CloudPollStatus(resp, 0)
    \/ pc = "fetch" /\ \E resp \in FetchResponses(BasicPayloads) : CloudFetch(resp)
    \/ pc = "normalize" /\ \E raises \in BOOLEAN : CloudMarkdownify(raises)
    \/ pc = "rehost" /\ \E outcome \in UploadOutcomes : CloudRehostStep(outcome)
    \/ CloudReturn
    \/ CloudExcept
    \/ StdCall
    \/ pc = "file_parse" /\ \E resp \in FileParseResponses(BasicPayloads) : StdFileParse(resp)
    \/ StdExcept
    \/ pc = "normalize" /\ \E raises \in BOOLEAN : StdMarkdownify(raises)
    \/ pc = "rehost" /\ \E outcome \in UploadOutcomes : StdRehostStep(outcome)
    \/ StdReturn

SpecInstance == Init /\ [][NextInstance]_vars

\* ------------------------------------------------------------------- claims

\* polling has reached its terminal outcome: completion or failure was
\* reported, or the timeout was raised
PollingEnded == last \in {"done", "failed"} \/ exc = "TimeoutError"

\* C1: in MinerUCloudParser.parse_into_text GET /result is requested, or about
\* to be requested, only when the last status response of the same call
\* reported completion
C1_FetchOnlyAfterDone ==
    (pc = "fetch" \/ nFetch > 0) => (last = "done" /\ nStatus >= 1)

\* C1 witness: a fetch after two non-final polls and a completion
C1_Witness == nFetch = 1 /\ nStatus = 3 /\ last = "done"

\* C2: once the deadline has passed at the top of the poll loop the call
\* raises the timeout, which ends it with the empty Document and without a
\* fetch; and the poll loop is always left
C2_DeadlineEndsCall ==
    /\ [](exc = "TimeoutError" =>
            /\ nFetch = 0
            /\ pc = "except" \/ (pc = "returned" /\ result = EmptyDocument))
    /\ (pc = "poll" /\ DeadlinePassed) ~> (pc = "returned" /\ exc = "TimeoutError")
    /\ (pc \in {"poll", "sleep"}) ~> (pc \notin {"poll", "sleep"})

\* C2 witness: a call that timed out after nothing but failed status requests
C2_Witness ==
    /\ pc = "returned" /\ exc = "TimeoutError"
    /\ fails = nStatus /\ nStatus > 0 /\ result = EmptyDocument

\* C3: when upload_bytes fails for an image, the call returns a Document
\* whose content still holds the reference images/<path> and whose image map
\* has no entry for that image
C3_FailedUploadKeepsReference ==
    pc \in {"returned", "raised"} =>
        \A j \in 1..Len(uploads) :
            uploads[j].outcome # "ok" =>
                /\ pc = "returned"
                /\ Contains(result.content, Ref(uploads[j].path))
                /\ \A e \in result.images : e[1] # uploads[j].url

\* C4: a call of the cloud parser never raises to its caller, and when an
\* exception was raised inside it the call returns the empty Document
C4_CloudNeverRaises ==
    kind = "cloud" =>
        /\ pc # "raised"
        /\ (pc = "returned" /\ exc # "") => result = EmptyDocument

\* C4 witness: a cloud call that absorbed an exception of the rehosting pass
C4_Witness ==
    /\ kind = "cloud" /\ pc = "returned" /\ exc = "UploadError"
    /\ result = EmptyDocument

\* C5 as stated: at the terminal outcome of polling the time since the start
\* of the submission request is at most MAX_WAIT_TIME plus the duration of
\* the last status request
C5_FromSubmitStart == PollingEnded => clock <= MAX_WAIT_TIME + lastDur

\* C5 amended: at the terminal outcome of polling the time since start_time
\* is at most MAX_WAIT_TIME plus the duration of the last status request,
\* plus one POLL_INTERVAL sleep when the outcome is the timeout
C5_FromStartTime ==
    PollingEnded =>
        clock - start_time <= MAX_WAIT_TIME + lastDur
                              + (IF exc = "TimeoutError" THEN POLL_INTERVAL ELSE 0)

\* C5 witness: a timeout raised exactly at the amended bound, after a status
\* request that was in flight when the deadline passed
C5_Witness ==
    /\ exc = "TimeoutError" /\ lastDur > 0
    /\ clock - start_time = MAX_WAIT_TIME + lastDur + POLL_INTERVAL

\* C6: a status request that fails transiently leaves the task and the call
\* as they are and leads to a sleep; a sleep leads back to the top of the
\* loop; there, within the deadline, another status request is issued; and a
\* completion report leads to the fetch whatever came before
C6_TransientRetried ==
    [][ /\ (nStatus' = nStatus + 1 /\ last' = "transient") =>
              (pc' = "sleep" /\ exc' = "" /\ task_id' = task_id /\ nFetch' = nFetch)
        /\ pc = "sleep" => (pc' = "poll" /\ exc' = "" /\ nSleep' = nSleep + 1)
        /\ (pc = "poll" /\ ~DeadlinePassed) => nStatus' = nStatus + 1
        /\ (nStatus' = nStatus + 1 /\ last' = "done") => pc' = "fetch"
      ]_vars

\* C6 witness: four transient failures in a row, then completion, and the
\* call returned the parsed Document
C6_Witness ==
    /\ pc = "returned" /\ fails = 4 /\ nStatus = 5 /\ last = "done"
    /\ result.images # {}

\* entry i of the image mapping is referenced by the normalised markdown
Referenced(i) == Contains(md_content, Ref(images_b64[i].path))

\* the response holds one referenced, well-formed image, which was uploaded,
\* and one decoy that is not referenced
OneImageOneDecoy ==
    /\ Len(images_b64) = 2
    /\ \E i \in 1..2 : Referenced(i) /\ ~Referenced(3 - i)
    /\ Len(uploads) = 1 /\ uploads[1].outcome = "ok"

\* C7: an entry whose reference is not in the normalised markdown is never
\* decoded and never uploaded, every entry of the image map comes from an
\* upload, and with one referenced image and one decoy the Document has one
\* image entry and its content holds the URL of the upload
C7_UnreferencedNeverUploaded ==
    /\ \A i \in 1..Len(images_b64) :
          (pc # "normalize" /\ ~Referenced(i)) =>
              /\ images_b64[i].path \notin decoded
              /\ \A j \in 1..Len(uploads) : uploads[j].path # images_b64[i].path
    /\ \A e \in images :
          \E j \in 1..Len(uploads) :
              uploads[j].url = e[1] /\ uploads[j].outcome # "raise"
    /\ (pc = "returned" /\ OneImageOneDecoy) =>
          /\ Cardinality(result.images) = 1
          /\ Contains(result.content, uploads[1].url)
          /\ \A e \in result.images : e[1] = uploads[1].url

\* C7 witness: a returned Document for one referenced image and a
\* well-formed decoy
C7_Witness ==
    /\ pc = "returned" /\ OneImageOneDecoy
    /\ \A i \in 1..2 : images_b64[i].uri.env /\ images_b64[i].uri.b64 = "b64ok"

\* C8: for every image whose upload returned a URL, the returned content
\* holds that URL and no longer holds the reference images/<path>
C8_RehostedUrlReplacesPath ==
    pc = "returned" =>
        \A j \in 1..Len(uploads) :
            uploads[j].outcome = "ok" =>
                /\ Contains(result.content, uploads[j].url)
                /\ ~Contains(result.content, Ref(uploads[j].path))

\* C9: a parser whose probe failed issues no parsing request and no upload,
\* is never inside a call, and every call returns the empty Document
C9_DisabledIsInert ==
    (pc # "new" /\ ~enable) =>
        /\ nFileParse = 0 /\ nSubmit = 0 /\ nStatus = 0 /\ nFetch = 0
        /\ uploads = <<>> /\ decoded = {}
        /\ pc \in {"idle", "returned"}
        /\ pc = "returned" => result = EmptyDocument

\* C9 witness: a call on a disabled cloud parser has returned
C9_Witness ==
    /\ ~enable /\ nProbe = 1 /\ kind = "cloud"
    /\ pc = "returned" /\ result = EmptyDocument

\* C10: when every status response before the completion report said
\* "running" (runs of them), the call has issued runs + 1 status requests,
\* and exactly one fetch once the fetch step is taken
C10_RunningThenDone ==
    (last = "done" /\ runs >= 0) =>
        /\ nStatus = runs + 1
        /\ IF pc = "fetch" THEN nFetch = 0 ELSE nFetch = 1

\* C10 witness: three "running" answers, then "done": four status requests
\* and one fetch
C10_Witness ==
    /\ last = "done" /\ runs = 3 /\ nStatus = 4 /\ nFetch = 1
    /\ pc = "returned"

\* entry i does not reach the store: its data URI has no envelope or its
\* payload does not decode
Malformed(i) ==
    ~images_b64[i].uri.env \/ images_b64[i].uri.b64 # "b64ok"

\* the call returned normally and no upload of the batch failed
BatchCompleted ==
    /\ pc = "returned" /\ exc = ""
    /\ \A j \in 1..Len(uploads) : uploads[j].outcome = "ok"

\* C11: in a batch with a referenced malformed entry, that entry is not
\* uploaded and not in the image map, while every referenced well-formed
\* entry is uploaded, is in the image map and has its reference replaced by
\* its URL in the content; with one malformed entry among three referenced
\* ones the image map has two entries
C11_MalformedSkippedAlone ==
    (BatchCompleted /\ \E i \in 1..Len(images_b64) : Referenced(i) /\ Malformed(i)) =>
        /\ \A i \in 1..Len(images_b64) :
              Referenced(i) =>
                  IF Malformed(i)
                  THEN \A j \in 1..Len(uploads) : uploads[j].path # images_b64[i].path
                  ELSE \E j \in 1..Len(uploads) :
                          /\ uploads[j].path = images_b64[i].path
                          /\ <<uploads[j].url, images_b64[i].uri.b64>> \in result.images
                          /\ Contains(result.content, uploads[j].url)
                          /\ ~Contains(result.content, Ref(images_b64[i].path))
        /\ ( /\ Len(images_b64) = 3
             /\ \A i \in 1..3 : Referenced(i)
             /\ Cardinality({i \in 1..3 : Malformed(i)}) = 1 )
           => Cardinality(result.images) = 2

\* the upload of entry i was attempted and failed
UploadFailed(i) ==
    \E j \in 1..Len(uploads) :
        uploads[j].path = images_b64[i].path /\ uploads[j].outcome # "ok"

\* C12: when the upload of one image of a response failed, the call still
\* returns a Document, and every other referenced well-formed image of the
\* response was uploaded, is in the image map and has its URL in the content
C12_UploadErrorIsolated ==
    (pc \in {"returned", "raised"} /\ \E k \in 1..Len(images_b64) : UploadFailed(k)) =>
        \A i \in 1..Len(images_b64) :
            (Referenced(i) /\ ~Malformed(i) /\ ~UploadFailed(i)) =>
                /\ pc = "returned"
                /\ \E j \in 1..Len(uploads) :
                      /\ uploads[j].path = images_b64[i].path
                      /\ uploads[j].outcome = "ok"
                      /\ <<uploads[j].url, images_b64[i].uri.b64>> \in result.images
                      /\ Contains(result.content, uploads[j].url)

\* C13: no error above the granularity of one image leaves parse_into_text
\* of either parser, and a call in which markdownify raised returns the
\* empty Document
C13_MarkdownifyErrorAbsorbed ==
    /\ pc = "raised" => exc = "UploadError"
    /\ (exc = "MarkdownifyError" /\ pc \in {"returned", "raised"}) =>
           (pc = "returned" /\ result = EmptyDocument)

\* the exceptions of a failed POST /file_parse
FileParseExceptions == {FileParseException(k) : k \in FileParseErrors}

\* C14: when POST /file_parse of the standard parser fails (network error,
\* error status, body that is not JSON or has no md_content), the call goes
\* no further than the handler: it uploads nothing, raises nothing and
\* returns the empty Document
C14_FileParseFailureReturnsEmpty ==
    (kind = "std" /\ exc \in FileParseExceptions) =>
        /\ pc \in {"except", "returned"}
        /\ uploads = <<>> /\ images = {}
        /\ pc = "returned" => result = EmptyDocument

\* C14 witness: a call whose response body had no md_content has returned
\* the empty Document
C14_Witness ==
    /\ kind = "std" /\ pc = "returned" /\ exc = "KeyError"
    /\ nFileParse = 1 /\ result = EmptyDocument /\ uploads = <<>>

\* C15: a call of the enabled standard parser sends POST /file_parse exactly
\* once: none before the request step, one from then on whatever the answer
\* was, and never a second one
C15_OneFileParseRequest ==
    (kind = "std" /\ enable) =>
        /\ nFileParse <= 1
        /\ pc = "file_parse" => nFileParse = 0
        /\ pc \in {"normalize", "rehost", "except", "returned", "raised"} =>
               nFileParse = 1

\* C15 witness: a call whose single request failed on the network has
\* returned
C15_Witness ==
    /\ kind = "std" /\ enable /\ pc = "returned"
    /\ exc = "ConnectionError" /\ nFileParse = 1

\* C16: once a status response of the cloud parser reported 'failed', the
\* call is on its way out with the RuntimeError: it has fetched nothing and
\* uploaded nothing, it sends no further status or fetch request, and it
\* returns the empty Document
C16_FailedIsTerminal ==
    /\ [](last = "failed" =>
             /\ pc \in {"except", "returned"}
             /\ exc = "RuntimeError"
             /\ nFetch = 0 /\ uploads = <<>>
             /\ pc = "returned" => result = EmptyDocument)
    /\ [][(last = "failed" /\ pc = "except") =>
             /\ nStatus' = nStatus /\ nFetch' = nFetch /\ nSubmit' = nSubmit
             /\ pc' = "returned" /\ result' = EmptyDocument]_vars

\* C16 witness: a call that polled a running task, was then told 'failed',
\* and returned the empty Document
C16_Witness ==
    /\ kind = "cloud" /\ pc = "returned" /\ last = "failed"
    /\ nStatus = 2 /\ nFetch = 0 /\ result = EmptyDocument

\* C17: a submission that yields no task id (request error, error status,
\* or a response with no task_id at top level or under data) ends the cloud
\* call at once: no status request, no fetch request, the empty Document;
\* a task id at top level or under data starts polling, and every status and
\* fetch request of the call carries that id
C17_TaskIdDecidesPolling ==
    (kind = "cloud" /\ nSubmit = 1) =>
        IF issued = ""
        THEN /\ nStatus = 0 /\ nFetch = 0 /\ reqIds = {}
             /\ pc \in {"except", "returned"}
             /\ pc = "returned" => result = EmptyDocument
        ELSE /\ task_id = issued
             /\ nStatus = 0 => (pc = "poll" /\ reqIds = {})
             /\ nStatus > 0 => reqIds = {issued}
             /\ nFetch > 0 => nStatus > 0

\* C17 witness: a call that was given a task id has polled twice and
\* fetched, every request with that id
C17_Witness ==
    /\ kind = "cloud" /\ pc = "returned"
    /\ issued = TaskId /\ reqIds = {TaskId}
    /\ nStatus = 2 /\ nFetch = 1

\* a call whose submission answered without a task id has returned
C17_NoIdReturned ==
    /\ kind = "cloud" /\ pc = "returned" /\ nSubmit = 1
    /\ exc = "ValueError" /\ nStatus = 0 /\ nFetch = 0

\* C18: in a call of the enabled cloud parser the submission request is sent
\* exactly once and the result request at most once, exactly once when a
\* status response reported completion; a failed submission or result
\* request is not repeated and ends the call with the empty Document
C18_OnlyStatusRepeats ==
    (kind = "cloud" /\ enable) =>
        /\ nSubmit <= 1 /\ nFetch <= 1
        /\ pc = "submit" => nSubmit = 0
        /\ pc \notin {"idle", "submit"} => nSubmit = 1
        /\ nFetch = 1 => last = "done"
        /\ last = "done" => (IF pc = "fetch" THEN nFetch = 0 ELSE nFetch = 1)
        /\ exc \in {"RequestError", "AttributeError"} =>
               /\ pc \in {"except", "returned"}
               /\ pc = "returned" => result = EmptyDocument

\* C18 witness: a call that sent three status requests and whose single
\* result request failed has returned the empty Document
C18_Witness ==
    /\ kind = "cloud" /\ pc = "returned" /\ exc = "RequestError"
    /\ nSubmit = 1 /\ nStatus = 3 /\ nFetch = 1
    /\ result = EmptyDocument

\* C19: every key of the image map of a returned Document is a URL that
\* occurs in the content of that Document
C19_ImageKeysOccurInContent ==
    pc = "returned" =>
        \A e \in result.images : Contains(result.content, e[1])

\* the state of the task of the current cloud call: NONE while there is no
\* task id, SUBMITTED from the task id to the first status request, POLLING
\* while status requests go on, then DONE (completion reported), FAILED
\* (failure reported) or TIMEOUT (deadline passed)
TaskState ==
    IF task_id = "" THEN "NONE"
    ELSE IF exc = "TimeoutError" THEN "TIMEOUT"
    ELSE IF last = "failed" THEN "FAILED"
    ELSE IF last = "done" THEN "DONE"
    ELSE IF nStatus = 0 THEN "SUBMITTED"
    ELSE "POLLING"

\* the transitions of a task inside one call
TaskTransitions ==
    {<<"NONE", "NONE">>, <<"NONE", "SUBMITTED">>,
     <<"SUBMITTED", "POLLING">>, <<"SUBMITTED", "DONE">>,
     <<"SUBMITTED", "FAILED">>,
     <<"POLLING", "POLLING">>, <<"POLLING", "DONE">>,
     <<"POLLING", "FAILED">>, <<"POLLING", "TIMEOUT">>,
     <<"DONE", "DONE">>, <<"FAILED", "FAILED">>, <<"TIMEOUT", "TIMEOUT">>}

\* C20: inside a cloud call the task goes SUBMITTED -> POLLING -> DONE,
\* FAILED or TIMEOUT only: SUBMITTED is left by a status request, POLLING may
\* repeat, there is no second submission, after FAILED or TIMEOUT no request
\* of any kind is sent and after DONE no status request is sent; a new task
\* exists only after a new call
C20_TaskLifecycle ==
    [][IF pc \in {"new", "idle", "returned", "raised"}
       THEN TaskState' = "NONE"
       ELSE /\ <<TaskState, TaskState'>> \in TaskTransitions
            /\ nSubmit' > nSubmit => (TaskState = "NONE" /\ nSubmit = 0)
            /\ (TaskState = "SUBMITTED" /\ TaskState' # "SUBMITTED") =>
                   nStatus' = nStatus + 1
            /\ TaskState \in {"FAILED", "TIMEOUT"} =>
                   /\ nSubmit' = nSubmit /\ nStatus' = nStatus
                   /\ nFetch' = nFetch /\ uploads' = uploads
            /\ TaskState = "DONE" =>
                   (nSubmit' = nSubmit /\ nStatus' = nStatus)]_vars

\* C20 witness: a task that was polled three times before completion was
\* reported, in a call that has returned
C20_Witness ==
    /\ kind = "cloud" /\ pc = "returned" /\ TaskState = "DONE"
    /\ nSubmit = 1 /\ nStatus = 3 /\ nFetch = 1

\* a task that timed out, in a call that has returned
C20_TimedOut ==
    /\ kind = "cloud" /\ pc = "returned" /\ TaskState = "TIMEOUT"
    /\ nSubmit = 1 /\ nFetch = 0

\* number of places of text at which pat occurs
Occurrences(text, pat) ==
    Cardinality({k \in 1..(Len(text) - Len(pat) + 1) :
                    SubSeq(text, k, k + Len(pat) - 1) = pat})

\* in the returned content the reference of entry i is replaced by the URL
\* of its upload at every place it had in the markdown
ReplacedEverywhere(i) ==
    \E j \in 1..Len(uploads) :
        /\ uploads[j].path = images_b64[i].path
        /\ Occurrences(result.content, Ref(images_b64[i].path)) = 0
        /\ \/ uploads[j].url = <<>>
           \/ Occurrences(result.content, uploads[j].url) >=
                  Occurrences(md_content, Ref(images_b64[i].path))

\* in the returned content the reference of entry i is at every place it had
\* in the markdown
UntouchedEverywhere(i) ==
    Occurrences(result.content, Ref(images_b64[i].path)) =
        Occurrences(md_content, Ref(images_b64[i].path))

\* C21: a call that returns normally has visited every entry of the response
\* before the substitution, and in the returned content the reference of
\* each image whose upload was attempted is either replaced at every
\* occurrence or untouched at every occurrence
C21_ReplacedOrUntouched ==
    (pc = "returned" /\ exc = "" /\ result # EmptyDocument) =>
        /\ idx > Len(images_b64)
        /\ \A i \in 1..Len(images_b64) :
               (\E j \in 1..Len(uploads) : uploads[j].path = images_b64[i].path)
                   => (ReplacedEverywhere(i) \/ UntouchedEverywhere(i))

\* GET /docs requests issued by the instance itself, in its constructor or
\* in a parse_into_text call: all of them but the caller's own calls of ping()
OwnProbes == nProbe - nPing

\* C22: the constructor issues GET /docs once and always completes, with
\* enable true exactly when the probe answered with success (ping turns every
\* failure into False); afterwards the instance has issued that one probe
\* and no other, and no step of a parse_into_text call of either thread,
\* whatever the outcome of the call, changes enable or the endpoint or issues
\* another probe (nor does a call of ping() by the caller change the flag or
\* the endpoint)
C22_FlagSetOnceAtConstruction ==
    /\ [](pc # "new" => (OwnProbes = 1 /\ enable = (probed = "ok")))
    /\ [][IF pc = "new"
          THEN pc' = "idle" /\ nProbe' = 1 /\ nPing' = 0
          ELSE /\ UNCHANGED <<enable, minerU, probed>>
               /\ nPing' = nPing => nProbe' = nProbe]_vars

\* C22 witness: on an instance whose probe succeeded, one thread is in the
\* rehosting loop while the call of the other thread has failed and is in
\* its handler; the only GET /docs so far is the constructor's, and the flag
\* and the endpoint are as the constructor left them
C22_Witness ==
    /\ kind = "cloud" /\ pc = "rehost" /\ other.pc = "except"
    /\ other.exc # ""
    /\ enable /\ probed = "ok" /\ minerU = <<"E">>
    /\ nProbe = 1 /\ nPing = 0

\* C23: inside one call every upload belongs to an entry of the response
\* whose reference is in the markdown, no entry is uploaded twice, and so the
\* uploads are never more than the referenced entries
C23_AtMostOneUploadPerEntry ==
    /\ \A j \in 1..Len(uploads) :
           \E i \in 1..Len(images_b64) :
               images_b64[i].path = uploads[j].path /\ Referenced(i)
    /\ \A j, k \in 1..Len(uploads) :
           j # k => uploads[j].path # uploads[k].path
    /\ Len(uploads) <= Cardinality({i \in 1..Len(images_b64) : Referenced(i)})

\* C23 witness: a call over three referenced entries has returned after
\* three uploads, one of which handed back no URL
C23_Witness ==
    /\ pc = "returned" /\ Len(images_b64) = 3 /\ Len(uploads) = 3
    /\ \A i \in 1..3 : Referenced(i)
    /\ \E j \in 1..3 : uploads[j].outcome = "empty"

\* the last status response was decoded and reported neither completion nor
\* failure: "running", an unrecognised value, or no status and no state
StillRunning == last \in {"running", "unknown"}

\* C24: after a status response that reports neither completion nor failure
\* the cloud call has fetched nothing and has not failed; it sleeps
\* POLL_INTERVAL, and at the top of the loop it sends another status request
\* unless the deadline has passed, so that it ends only by the timeout
C24_OtherStatusKeepsPolling ==
    /\ [](StillRunning =>
             /\ nFetch = 0
             /\ pc \in {"sleep", "poll", "except", "returned"}
             /\ pc \in {"except", "returned"} => exc = "TimeoutError")
    /\ [][(StillRunning /\ pc = "sleep") =>
             /\ pc' = "poll" /\ clock' = clock + POLL_INTERVAL
             /\ nStatus' = nStatus]_vars
    /\ [][(StillRunning /\ pc = "poll") =>
             IF DeadlinePassed
             THEN exc' = "TimeoutError" /\ nStatus' = nStatus
             ELSE nStatus' = nStatus + 1]_vars

\* C24 witness: the second status response of a call carried an unrecognised
\* value and the call is asleep before its third request
C24_Witness ==
    /\ kind = "cloud" /\ pc = "sleep" /\ last = "unknown"
    /\ nStatus = 2 /\ nFetch = 0 /\ exc = ""

\* C25: in a cloud call there is exactly one sleep of POLL_INTERVAL between
\* two consecutive status requests: at the top of the loop the sleeps equal
\* the status requests, after a request that did not end the loop there is
\* one sleep less, and each sleep adds POLL_INTERVAL to the clock
C25_OneSleepBetweenRequests ==
    /\ [](kind = "cloud" =>
             /\ pc = "poll" => nSleep = nStatus
             /\ pc = "sleep" => nSleep + 1 = nStatus
             /\ nSleep <= nStatus)
    /\ [][(pc = "poll" /\ nStatus' = nStatus + 1 /\ nStatus > 0) =>
             nSleep = nStatus]_vars
    /\ [][pc = "sleep" =>
             /\ nSleep' = nSleep + 1 /\ clock' = clock + POLL_INTERVAL
             /\ pc' = "poll"]_vars

\* C25 witness: after a running answer and a failed status request the call
\* is at the top of the loop for its third request, having slept twice
C25_Witness ==
    /\ kind = "cloud" /\ pc = "poll" /\ last = "transient"
    /\ nStatus = 2 /\ nSleep = 2 /\ clock = 2 * POLL_INTERVAL

\* C26: a status request of the cloud parser is started only while the
\* elapsed time does not exceed MAX_WAIT_TIME; once a status response
\* reported completion the call never times out, even when that response
\* came back after the deadline: the result request follows, and a call
\* that then meets no error returns the parsed Document
C26_DeadlineOnlyAtLoopTop ==
    /\ [][nStatus' = nStatus + 1 => clock - start_time <= MAX_WAIT_TIME]_vars
    /\ [](last = "done" =>
             /\ exc # "TimeoutError"
             /\ pc = "fetch" \/ nFetch = 1
             /\ (pc = "returned" /\ exc = "") =>
                    (result # EmptyDocument /\ result # NoResult))
    /\ [][pc = "fetch" => nFetch' = nFetch + 1]_vars

\* C26 witness: the last status request began at the deadline and came back
\* after it with a completion report; the call has returned the Document
\* with the rehosted image
C26_Witness ==
    /\ kind = "cloud" /\ pc = "returned" /\ exc = "" /\ last = "done"
    /\ lastDur > 0 /\ clock - start_time = MAX_WAIT_TIME + lastDur
    /\ nFetch = 1 /\ result.content = <<"U1">>

\* C27: a cloud call sends at most MAX_WAIT_TIME \div POLL_INTERVAL + 1
\* status requests (301 with the defaults)
C27_StatusRequestsBounded ==
    nStatus <= (MAX_WAIT_TIME \div POLL_INTERVAL) + 1

\* C27 witness: a call has sent as many status requests as the bound allows
C27_Witness ==
    /\ kind = "cloud"
    /\ nStatus = (MAX_WAIT_TIME \div POLL_INTERVAL) + 1
    /\ nStatus = 301

====
